---- MODULE Spec2Model ----
(***************************************************************************)
(* A model of deglynifier (src/deglynifier.py): the Watcher and its TOML   *)
(* dump, the two ExptFile variants (SimpleFile, MIFNMRFolder) and the      *)
(* polling loop of main().                                                 *)
(*                                                                         *)
(* Time stamps (st_mtime, start_date, end_date) are integers 1..MaxTime;   *)
(* 0 is "no such folder" for a source folder and the initial value of      *)
(* Watcher.last_timestamp.  Paths are strings.                             *)
(***************************************************************************)
EXTENDS Integers, Sequences, FiniteSets, TLC

(***************************************************************************)
(* Bounds of the model.                                                    *)
(***************************************************************************)
\* largest modification time a source folder can carry
MaxTime == 4
\* number of process_data calls over all runs
MaxCalls == 3
\* number of blocks of a dump file handed to Watcher.from_toml directly
MaxBlocks == 3
\* number of lines of an orig file
MaxLines == 2

(***************************************************************************)
(* Inputs of main(): the CLI arguments.                                    *)
(***************************************************************************)
\* --start, as a time stamp (start_date.timestamp())
StartDate == 2
\* --end, normalised to 23:59:59 of the day, as a time stamp
EndDate == 3
\* positional inpath / outpath
CliInpath == "in"
CliOutpath == "out"

\* the folders the glob pattern */* can find under the source root
Folders == {"d1/a", "d2/a"}

\* Path.parent.name and Path.name of a source folder
ParentName(p) == CASE p = "d1/a" -> "d1" [] p = "d2/a" -> "d2"
Name(p) == CASE p = "d1/a" -> "a" [] p = "d2/a" -> "a"

Times == 1..MaxTime

\* max of a finite set of naturals, 0 for the empty set
SetMax(S) == IF S = {} THEN 0 ELSE CHOOSE m \in S : \A x \in S : x <= m

Range(s) == {s[i] : i \in 1..Len(s)}

\* all orderings of a finite set, as sequences without repetition
Perms(S) == {s \in [1..Cardinality(S) -> S] : \A x \in S : \E i \in DOMAIN s : s[i] = x}

(***************************************************************************)
(* Decimal formatting and parsing of experiment numbers: f"{expno}" and    *)
(* int(nmr_exp.name).                                                      *)
(***************************************************************************)
Digit(d) == CASE d = 0 -> "0" [] d = 1 -> "1" [] d = 2 -> "2" [] d = 3 -> "3"
              [] d = 4 -> "4" [] d = 5 -> "5" [] d = 6 -> "6" [] d = 7 -> "7"
              [] d = 8 -> "8" [] d = 9 -> "9"

RECURSIVE Str(_)
Str(n) == IF n < 10 THEN Digit(n) ELSE Str(n \div 10) \o Digit(n % 10)

\* the numbers a directory name of the archive can denote in this model
Numerals == 0..(10 * (MaxCalls + 2))
\* the parse table: numeral -> number
NumeralOf == [s \in {Str(n) : n \in Numerals} |-> CHOOSE n \in Numerals : Str(n) = s]
IsNumeric(s) == s \in DOMAIN NumeralOf
\* int(s); only applied where IsNumeric(s)
IntOf(s) == NumeralOf[s]

(***************************************************************************)
(* strip_illegal_characters, on the identifiers the sidecar files of the   *)
(* model hold: each of / $ : ? | ' \ becomes an underscore; every other    *)
(* character, the double quote included, is kept.                          *)
(***************************************************************************)
strip_illegal_characters(s) ==
    CASE s = "S/1" -> "S_1"
      [] s = "N:1" -> "N_1"
      [] s = "C13:DEPT" -> "C13_DEPT"
      [] OTHER -> s

\* str.strip() on the field texts of the model: " " is a blank field
Strip(s) == IF s = " " THEN "" ELSE s

(***************************************************************************)
(* The sidecar files of a source folder.  A file is missing, denied (open  *)
(* raises PermissionError), binary (its bytes do not decode as text) or    *)
(* text, a sequence of lines.  A line of orig is                           *)
(* "Name :-<name> : Sample ID :-<sid>", where name or sid is NoKey when    *)
(* the line does not hold that field; a line of acqus is "##$EXP= <exp>",  *)
(* NoKey when the line does not match.                                     *)
(***************************************************************************)
NoKey == "<no key>"

OrigLine(name, sid) == [name |-> name, sid |-> sid]
TextFile(lines) == [kind |-> "text", lines |-> lines]
NoText(kind) == [kind |-> kind, lines |-> <<>>]

\* the sidecars of the folders of the source root: the two folders are
\* experiments of one sample; d1/a names it in the Sample ID field, d2/a in
\* the Name field with a blank Sample ID
Orig(p) == CASE p = "d1/a" -> TextFile(<<OrigLine("N:1", "S/1")>>)
             [] p = "d2/a" -> TextFile(<<OrigLine("S/1", " ")>>)

Acqus(p) == CASE p = "d1/a" -> TextFile(<<"PROTON">>)
              [] p = "d2/a" -> TextFile(<<"C13:DEPT">>)

\* the loop of get_sample_name over the lines of orig (lines 218-244);
\* sample_id is the local variable, the result its value after the loop
RECURSIVE SampleIdLoop(_, _, _)
SampleIdLoop(lines, i, sample_id) ==
    IF i > Len(lines) THEN sample_id
    ELSE IF lines[i].sid = NoKey THEN SampleIdLoop(lines, i + 1, sample_id)
    ELSE IF Strip(lines[i].sid) # "" THEN Strip(lines[i].sid)
    ELSE IF lines[i].name = NoKey THEN SampleIdLoop(lines, i + 1, "")
    ELSE IF Strip(lines[i].name) # "" THEN Strip(lines[i].name)
    ELSE "UNKNOWN"

\* get_sample_name on an orig file that does not make it raise
SampleName(file) ==
    IF file.kind # "text" THEN "UNKNOWN"
    ELSE strip_illegal_characters(SampleIdLoop(file.lines, 1, "UNKNOWN"))

\* the loop of get_experiment_name over the lines of acqus (lines 272-280)
RECURSIVE ExpLoop(_, _)
ExpLoop(lines, i) ==
    IF i > Len(lines) THEN "UNKNOWN"
    ELSE IF lines[i] # NoKey THEN strip_illegal_characters(lines[i])
    ELSE ExpLoop(lines, i + 1)

ExperimentName(file) == IF file.kind # "text" THEN "UNKNOWN" ELSE ExpLoop(file.lines, 1)

\* the exception reading a sidecar raises past except (OSError,
\* FileNotFoundError), "none" if none
ReadError(file) == IF file.kind = "binary" THEN "UnicodeDecodeError" ELSE "none"

\* the field texts orig and acqus files of the model hold
SidTexts == {NoKey, " ", "S/1", "Q\"1"}
NameTexts == {NoKey, " ", "N:1"}
ExpTexts == {NoKey, "PROTON", "C13:DEPT"}

\* the sample names get_sample_name can return in this model
Samples ==
    {strip_illegal_characters(Strip(t)) : t \in (SidTexts \cup NameTexts) \ {NoKey}}
        \cup {"UNKNOWN"}

(***************************************************************************)
(* The TOML dump.  A file is a flag (does it exist) and its blocks in file *)
(* order.  A block is the [watcher] table, a [[processed]] table, or text  *)
(* that is not TOML.  NoKey marks a key the block does not hold, NonStr a  *)
(* value that is not a string.                                             *)
(***************************************************************************)
NonStr == "<not a string>"

\* a block of kind k: "watcher", "processed", "scalar" (watcher = 1),
\* "garbage" (not TOML), "badutf8" (not UTF-8)
Block(k, nmr_sample, experiment, inpath, outpath, tsk, timestamp) ==
    [k |-> k, nmr_sample |-> nmr_sample, experiment |-> experiment,
     inpath |-> inpath, outpath |-> outpath, tsk |-> tsk, timestamp |-> timestamp]

\* the header Watcher.__init__ writes
HeaderBlock(inpath, outpath) == Block("watcher", NoKey, NoKey, inpath, outpath, "none", 0)

NoFile == [exists |-> FALSE, blocks |-> <<>>]

VARIABLES
    pc,              \* where main() is: "init", "scan", "catchup", "watch", "crashed", "stopped"
    exptfile_type,   \* --exptfile-type: "mifnmr" or "simple"
    mtime,           \* st_mtime of each source folder, 0 while it does not exist
    orig,            \* the orig file of each source folder
    acqus,           \* the acqus file of each source folder
    w_inpath,        \* Watcher.inpath
    w_outpath,       \* Watcher.outpath
    last_timestamp,  \* Watcher.last_timestamp
    to_process,      \* the queue of main()
    toml,            \* the dump file at toml_path
    disk,            \* the directories under the archive root: [dir, name] is the
                     \* path, src and ts the source folder copied and its state
    summary,         \* the <sample>.toml summary files: sample -> blocks
    error,           \* the exception that ended main(), "none" if none
    drained,         \* the time stamps process_data recorded in this drain cycle
    calls,           \* process_data calls so far, over all runs
    given            \* the dump a direct call of Watcher.from_toml was given

vars == <<pc, exptfile_type, mtime, orig, acqus, w_inpath, w_outpath,
          last_timestamp, to_process, toml, disk, summary, error, drained,
          calls, given>>

\* MIFNMRFolder.get_sample_name and get_experiment_name on a source folder
get_sample_name(p) == SampleName(orig[p])
get_experiment_name(p) == ExperimentName(acqus[p])


(***************************************************************************)
(* Watcher.__init__: writes the header when the dump does not exist, and   *)
(* truncates the dump to the header when clean.  Returns the dump file.    *)
(***************************************************************************)
\* WatcherInitFile that never truncates an existing dump
WatcherInitFileKeep(file, inpath, outpath, clean) ==
    IF ~file.exists
    THEN [exists |-> TRUE, blocks |-> <<HeaderBlock(inpath, outpath)>>]
    ELSE file

WatcherInitFile(file, inpath, outpath, clean) ==
    LET created == IF ~file.exists
                   THEN [exists |-> TRUE, blocks |-> <<HeaderBlock(inpath, outpath)>>]
                   ELSE file
    IN  IF clean
        THEN [exists |-> TRUE, blocks |-> <<HeaderBlock(inpath, outpath)>>]
        ELSE created

(***************************************************************************)
(* tomllib.load and the look-ups of Watcher.from_toml.  Each operator      *)
(* gives the exception raised, "none" if none.                             *)
(***************************************************************************)
Headers(file) == SelectSeq(file.blocks, LAMBDA b : b.k \in {"watcher", "scalar"})
Processed(file) == SelectSeq(file.blocks, LAMBDA b : b.k = "processed")

\* the texts of the model that hold a double quote
HasQuote(s) == s = "Q\"1"

\* a block whose text is not TOML: to_toml_string writes each string between
\* double quotes as it is (key = "{value}"), so a double quote in the value
\* ends the basic string early
NotToml(b) ==
    \/ b.k = "garbage"
    \/ b.k = "processed" /\ (HasQuote(b.nmr_sample) \/ HasQuote(b.experiment))

\* open(toml_path, "rb") and tomllib.load(f)
LoadError(file) ==
    IF ~file.exists THEN "OSError"
    ELSE IF \E i \in DOMAIN file.blocks : file.blocks[i].k = "badutf8"
         THEN "UnicodeDecodeError"
    ELSE IF \E i \in DOMAIN file.blocks : NotToml(file.blocks[i])
         THEN "TOMLDecodeError"
    ELSE IF Len(Headers(file)) > 1 THEN "TOMLDecodeError"
    ELSE "none"

\* Path(toml_data["watcher"]["inpath"]), Path(toml_data["watcher"]["outpath"])
HeaderError(file) ==
    IF Len(Headers(file)) = 0 THEN "KeyError"
    ELSE LET h == Headers(file)[1]
         IN  IF h.k = "scalar" THEN "TypeError"
             ELSE IF h.inpath = NoKey THEN "KeyError"
             ELSE IF h.inpath = NonStr THEN "TypeError"
             ELSE IF h.outpath = NoKey THEN "KeyError"
             ELSE IF h.outpath = NonStr THEN "TypeError"
             ELSE "none"

\* max(folder["timestamp"] for folder in toml_data.get("processed", [])):
\* the generator is consumed in file order; cur is the running maximum,
\* "none" before the first item, and each item is compared with it.
RECURSIVE MaxFold(_, _, _)
MaxFold(recs, i, cur) ==
    IF i > Len(recs)
    THEN IF cur.tsk = "none"
         THEN [exc |-> "ValueError", tsk |-> "none", timestamp |-> 0]
         ELSE [exc |-> "none", tsk |-> cur.tsk, timestamp |-> cur.timestamp]
    ELSE IF recs[i].tsk = "absent"
         THEN [exc |-> "KeyError", tsk |-> "none", timestamp |-> 0]
    ELSE IF cur.tsk = "none"
         THEN MaxFold(recs, i + 1, [tsk |-> recs[i].tsk, timestamp |-> recs[i].timestamp])
    ELSE IF cur.tsk # recs[i].tsk
         THEN [exc |-> "TypeError", tsk |-> "none", timestamp |-> 0]
    ELSE MaxFold(recs, i + 1,
                 [tsk |-> cur.tsk,
                  timestamp |-> IF recs[i].timestamp > cur.timestamp
                                THEN recs[i].timestamp ELSE cur.timestamp])

\* MaxTimestamp that takes the time stamp of the last record of the dump
LastTimestamp(file) ==
    LET recs == Processed(file)
    IN  IF recs = <<>> THEN [exc |-> "ValueError", tsk |-> "none", timestamp |-> 0]
        ELSE IF recs[Len(recs)].tsk = "absent"
             THEN [exc |-> "KeyError", tsk |-> "none", timestamp |-> 0]
        ELSE [exc |-> "none", tsk |-> recs[Len(recs)].tsk,
              timestamp |-> recs[Len(recs)].timestamp]

MaxTimestamp(file) == MaxFold(Processed(file), 1, [tsk |-> "none", timestamp |-> 0])

\* the exception the try block of from_toml ends with, "none" if none
TryError(file) ==
    IF LoadError(file) # "none" THEN LoadError(file)
    ELSE IF HeaderError(file) # "none" THEN HeaderError(file)
    ELSE MaxTimestamp(file).exc

\* except (KeyError, tomllib.TOMLDecodeError, OSError)
Caught == {"KeyError", "TOMLDecodeError", "OSError"}

(***************************************************************************)
(* Watcher.from_toml: the watcher returned (outcome "loaded" from the      *)
(* dump, "fallback" with the default roots), or the exception that leaves  *)
(* it (outcome "raised"); tsk tells whether last_timestamp is a number;    *)
(* file is the dump after the call.                                        *)
(***************************************************************************)
from_toml(file, default_inpath, default_outpath) ==
    LET exc == TryError(file)
    IN  IF exc = "none"
        THEN [outcome |-> "loaded", exc |-> "none",
              inpath |-> Headers(file)[1].inpath, outpath |-> Headers(file)[1].outpath,
              tsk |-> MaxTimestamp(file).tsk,
              last_timestamp |-> MaxTimestamp(file).timestamp,
              file |-> WatcherInitFile(file, Headers(file)[1].inpath,
                                       Headers(file)[1].outpath, FALSE)]
        ELSE IF exc \in Caught
        THEN [outcome |-> "fallback", exc |-> exc,
              inpath |-> default_inpath, outpath |-> default_outpath,
              tsk |-> "num", last_timestamp |-> 0,
              file |-> WatcherInitFile(file, default_inpath, default_outpath, FALSE)]
        ELSE [outcome |-> "raised", exc |-> exc,
              inpath |-> "", outpath |-> "",
              tsk |-> "none", last_timestamp |-> 0,
              file |-> file]

(***************************************************************************)
(* The initial state: main() has not started; the source root and the      *)
(* archive are empty and no dump exists.                                   *)
(***************************************************************************)
Init ==
    /\ pc = "init"
    /\ exptfile_type \in {"mifnmr", "simple"}
    /\ mtime = [p \in Folders |-> 0]
    /\ orig = [p \in Folders |-> Orig(p)]
    /\ acqus = [p \in Folders |-> Acqus(p)]
    /\ w_inpath = ""
    /\ w_outpath = ""
    /\ last_timestamp = 0
    /\ to_process = <<>>
    /\ toml = NoFile
    /\ disk = {}
    /\ summary = [s \in Samples |-> <<>>]
    /\ error = "none"
    /\ drained = <<>>
    /\ calls = 0
    /\ given = NoFile

(***************************************************************************)
(* The instrument: a new folder appears under the source root, with any    *)
(* modification time.  What the instrument does while main() is not        *)
(* running is seen by the next run only, so it is modelled as done right   *)
(* after that run's start.  Writes to an existing folder are not modelled. *)
(***************************************************************************)
NewFolder(p, t) ==
    /\ pc \in {"scan", "catchup", "watch"}
    /\ mtime[p] = 0
    /\ mtime' = [mtime EXCEPT ![p] = t]
    /\ UNCHANGED <<pc, exptfile_type, orig, acqus, w_inpath, w_outpath, last_timestamp,
                   to_process, toml, disk, summary, error, drained, calls, given>>

(***************************************************************************)
(* main(), lines 668-689: the watcher is created empty (clean run or no    *)
(* dump), or loaded from the dump.  clean is the --clean flag of the run.  *)
(***************************************************************************)
StartClean(clean) ==
    /\ pc = "init"
    /\ clean \/ ~toml.exists
    /\ toml' = WatcherInitFile(toml, CliInpath, CliOutpath, TRUE)
    /\ w_inpath' = CliInpath
    /\ w_outpath' = CliOutpath
    /\ last_timestamp' = 0
    /\ pc' = "scan"
    /\ UNCHANGED <<exptfile_type, orig, acqus, mtime, to_process, disk, summary, error,
                   drained, calls, given>>

\* datetime.fromtimestamp(watcher.last_timestamp) at line 688 needs a number
StartLoad(clean) ==
    /\ pc = "init"
    /\ ~(clean \/ ~toml.exists)
    /\ given' = toml
    /\ LET w == from_toml(toml, CliInpath, CliOutpath)
       IN  /\ toml' = w.file
           /\ IF w.outcome = "raised"
              THEN /\ pc' = "crashed"
                   /\ error' = w.exc
                   /\ UNCHANGED <<w_inpath, w_outpath, last_timestamp>>
              ELSE /\ w_inpath' = w.inpath
                   /\ w_outpath' = w.outpath
                   /\ last_timestamp' = w.last_timestamp
                   /\ IF w.tsk = "num"
                      THEN pc' = "scan" /\ error' = error
                      ELSE pc' = "crashed" /\ error' = "TypeError"
    /\ UNCHANGED <<exptfile_type, orig, acqus, mtime, to_process, disk, summary,
                   drained, calls>>


(***************************************************************************)
(* main(), lines 700-728: the catch-up enumeration.                        *)
(***************************************************************************)
\* watcher.inpath.glob(glob_pattern): the source root of the model is CliInpath
Found == IF w_inpath = CliInpath THEN {p \in Folders : mtime[p] # 0} ELSE {}

\* CatchUpFilter with the end date taken as exclusive
CatchUpFilterExclusiveEnd(timestamp, mark) ==
    IF timestamp <= mark THEN FALSE
    ELSE IF StartDate > timestamp THEN FALSE
    ELSE IF EndDate <= timestamp THEN FALSE
    ELSE TRUE

\* the if / elif chain of lines 707-717: TRUE when the folder is appended
CatchUpFilter(timestamp, mark) ==
    IF timestamp <= mark THEN FALSE
    ELSE IF StartDate > timestamp THEN FALSE
    ELSE IF EndDate < timestamp THEN FALSE
    ELSE TRUE

\* sorted(infiles, key = st_mtime): stable, so ties keep the glob order
SortedByMtime(S) ==
    {s \in Perms(S) : \A i, j \in DOMAIN s : i < j => mtime[s[i]] <= mtime[s[j]]}

CatchUpScan ==
    /\ pc = "scan"
    /\ to_process' \in SortedByMtime({p \in Found : CatchUpFilter(mtime[p], last_timestamp)})
    /\ pc' = "catchup"
    /\ drained' = <<>>
    /\ UNCHANGED <<exptfile_type, orig, acqus, mtime, w_inpath, w_outpath, last_timestamp,
                   toml, disk, summary, error, calls, given>>

(***************************************************************************)
(* copy_from_instrument, both variants: the destination planned.           *)
(***************************************************************************)
\* the directories (outdir / nmr_sample).glob("*") lists; outdir / "" is
\* outdir, whose directories are the sample directories and the
\* destinations written into outdir itself
SlotsOf(sample) ==
    IF sample = ""
    THEN {e.dir : e \in {d \in disk : d.dir # ""}} \cup {e.name : e \in {d \in disk : d.dir = ""}}
    ELSE {e.name : e \in {d \in disk : d.dir = sample}}

\* lines 308-311: expno after the loop over the listing is 10 for an empty
\* listing and int(name) + 10 of the directory listed last; the listing
\* order is the file system's, so any directory can be the last one
ExpnoChoices(slots) ==
    IF slots = {} THEN {10} ELSE {IntOf(d) + 10 : d \in {x \in slots : IsNumeric(x)}}

\* the exception MIFNMRFolder.copy_from_instrument raises before it copies:
\* reading a sidecar (lines 305-306), or int(nmr_exp.name) on a directory
\* whose name is not a number (line 311); "none" if none
PlanError(p) ==
    IF exptfile_type = "simple" THEN "none"
    ELSE IF ReadError(orig[p]) # "none" THEN ReadError(orig[p])
    ELSE IF ReadError(acqus[p]) # "none" THEN ReadError(acqus[p])
    ELSE IF \E d \in SlotsOf(get_sample_name(p)) : ~IsNumeric(d) THEN "ValueError"
    ELSE "none"

\* Exists that finds no path
ExistsNever(dir, name) == FALSE

\* outpath.exists()
Exists(dir, name) == \E e \in disk : e.dir = dir /\ e.name = name

\* str(outpath) with forward slashes
PathStr(dir, name) ==
    IF dir = "" THEN w_outpath \o "/" \o name ELSE w_outpath \o "/" \o dir \o "/" \o name

\* the destination directory of the variant: [dir, name, expno]
Destinations(p) ==
    IF exptfile_type = "simple"
    THEN {[dir |-> "", name |-> Name(p), expno |-> 0]}
    ELSE {[dir |-> get_sample_name(p), name |-> Str(n), expno |-> n] :
             n \in ExpnoChoices(SlotsOf(get_sample_name(p)))}

\* to_toml_string of the variant
to_toml_string(p, dest, timestamp) ==
    IF exptfile_type = "simple"
    THEN Block("processed", NoKey, NoKey, w_inpath \o "/" \o p,
               PathStr(dest.dir, dest.name), "num", timestamp)
    ELSE Block("processed", get_sample_name(p), get_experiment_name(p),
               w_inpath \o "/" \o p, PathStr(dest.dir, dest.name), "num", timestamp)

\* append_expno_info: the block appended to the sample's summary file
ExpnoInfo(p, expno) ==
    [expno |-> expno, experiment |-> get_experiment_name(p),
     inpath |-> ParentName(p) \o "/" \o Name(p)]

\* SummaryAfter that appends only when the folder is copied
SummaryAfterCopy(p, dest) ==
    IF exptfile_type = "simple" \/ Exists(dest.dir, dest.name) THEN summary
    ELSE [summary EXCEPT ![dest.dir] = Append(@, ExpnoInfo(p, dest.expno))]

SummaryAfter(p, dest) ==
    IF exptfile_type = "simple" THEN summary
    ELSE [summary EXCEPT ![dest.dir] = Append(@, ExpnoInfo(p, dest.expno))]

(***************************************************************************)
(* Watcher.process_data on the head of the queue (lines 735-740 and        *)
(* 760-765 of main): copy_from_instrument, then last_timestamp, then the   *)
(* record appended to the dump.  The folder's st_mtime is read twice, by   *)
(* copy_from_instrument (the record's timestamp) and by process_data (the  *)
(* new last_timestamp).  ProcessData is the call during which the          *)
(* instrument does not write to the folder, so both reads give mtime[p];   *)
(* ProcessDataTouched is the call during which it does.                    *)
(***************************************************************************)
\* ProcessData that puts the folder back on the queue
ProcessDataRequeue(p, dest) ==
    /\ pc \in {"catchup", "watch"}
    /\ to_process # <<>>
    /\ calls < MaxCalls
    /\ p = Head(to_process)
    /\ PlanError(p) = "none"
    /\ dest \in Destinations(p)
    /\ disk' = IF Exists(dest.dir, dest.name) THEN disk
               ELSE disk \cup {[dir |-> dest.dir, name |-> dest.name,
                                src |-> p, ts |-> mtime[p], whole |-> TRUE]}
    /\ summary' = SummaryAfter(p, dest)
    /\ last_timestamp' = mtime[p]
    /\ toml' = [toml EXCEPT !.exists = TRUE,
                            !.blocks = Append(@, to_toml_string(p, dest, mtime[p]))]
    /\ to_process' = Append(Tail(to_process), p)
    /\ drained' = Append(drained, mtime[p])
    /\ calls' = calls + 1
    /\ UNCHANGED <<pc, exptfile_type, orig, acqus, mtime, w_inpath, w_outpath, error, given>>

ProcessData(p, dest) ==
    /\ pc \in {"catchup", "watch"}
    /\ to_process # <<>>
    /\ calls < MaxCalls
    /\ p = Head(to_process)
    /\ PlanError(p) = "none"
    /\ dest \in Destinations(p)
    /\ disk' = IF Exists(dest.dir, dest.name) THEN disk
               ELSE disk \cup {[dir |-> dest.dir, name |-> dest.name,
                                src |-> p, ts |-> mtime[p], whole |-> TRUE]}
    /\ summary' = SummaryAfter(p, dest)
    /\ last_timestamp' = mtime[p]
    /\ toml' = [toml EXCEPT !.exists = TRUE,
                            !.blocks = Append(@, to_toml_string(p, dest, mtime[p]))]
    /\ to_process' = Tail(to_process)
    /\ drained' = Append(drained, mtime[p])
    /\ calls' = calls + 1
    /\ UNCHANGED <<pc, exptfile_type, orig, acqus, mtime, w_inpath, w_outpath, error, given>>

\* process_data while the instrument writes to the folder: the write comes
\* after inpath.stat() of copy_from_instrument (lines 121, 323) and before
\* data_path.stat() of process_data (line 521), and sets st_mtime to t
ProcessDataTouched(p, dest, t) ==
    /\ pc \in {"catchup", "watch"}
    /\ to_process # <<>>
    /\ calls < MaxCalls
    /\ p = Head(to_process)
    /\ PlanError(p) = "none"
    /\ dest \in Destinations(p)
    /\ t > mtime[p]
    /\ disk' = IF Exists(dest.dir, dest.name) THEN disk
               ELSE disk \cup {[dir |-> dest.dir, name |-> dest.name,
                                src |-> p, ts |-> mtime[p], whole |-> TRUE]}
    /\ summary' = SummaryAfter(p, dest)
    /\ mtime' = [mtime EXCEPT ![p] = t]
    /\ last_timestamp' = t
    /\ toml' = [toml EXCEPT !.exists = TRUE,
                            !.blocks = Append(@, to_toml_string(p, dest, mtime[p]))]
    /\ to_process' = Tail(to_process)
    /\ drained' = Append(drained, mtime[p])
    /\ calls' = calls + 1
    /\ UNCHANGED <<pc, exptfile_type, orig, acqus, w_inpath, w_outpath, error, given>>

\* copytree / copyfile raises: the exception leaves process_data and main
\* (main handles KeyboardInterrupt only); copytree may have created a part
\* of the destination already
CopyFails(p, dest, partial) ==
    /\ pc \in {"catchup", "watch"}
    /\ to_process # <<>>
    /\ calls < MaxCalls
    /\ p = Head(to_process)
    /\ PlanError(p) = "none"
    /\ dest \in Destinations(p)
    /\ ~Exists(dest.dir, dest.name)
    /\ disk' = IF partial
               THEN disk \cup {[dir |-> dest.dir, name |-> dest.name,
                                src |-> p, ts |-> mtime[p], whole |-> FALSE]}
               ELSE disk
    /\ to_process' = Tail(to_process)
    /\ pc' = "crashed"
    /\ error' = "CopyError"
    /\ calls' = calls + 1
    /\ UNCHANGED <<exptfile_type, orig, acqus, mtime, w_inpath, w_outpath, last_timestamp,
                   toml, summary, drained, given>>

\* copy_from_instrument raises before the copy: the exception leaves
\* process_data and main
PlanFails(p) ==
    /\ pc \in {"catchup", "watch"}
    /\ to_process # <<>>
    /\ calls < MaxCalls
    /\ p = Head(to_process)
    /\ PlanError(p) # "none"
    /\ to_process' = Tail(to_process)
    /\ pc' = "crashed"
    /\ error' = PlanError(p)
    /\ calls' = calls + 1
    /\ UNCHANGED <<exptfile_type, orig, acqus, mtime, w_inpath, w_outpath,
                   last_timestamp, toml, disk, summary, drained, given>>

\* KeyboardInterrupt inside process_data: while copytree / copyfile runs (a
\* part of the destination exists), or after copy_from_instrument has
\* returned and before the record is written (the copy and the summary
\* block exist, last_timestamp dies with the process)
ProcessInterrupted(p, dest, copied) ==
    /\ pc \in {"catchup", "watch"}
    /\ to_process # <<>>
    /\ calls < MaxCalls
    /\ p = Head(to_process)
    /\ PlanError(p) = "none"
    /\ dest \in Destinations(p)
    /\ copied \/ ~Exists(dest.dir, dest.name)
    /\ disk' = IF Exists(dest.dir, dest.name) THEN disk
               ELSE disk \cup {[dir |-> dest.dir, name |-> dest.name,
                                src |-> p, ts |-> mtime[p], whole |-> copied]}
    /\ summary' = IF copied THEN SummaryAfter(p, dest) ELSE summary
    /\ pc' = "stopped"
    /\ w_inpath' = ""
    /\ w_outpath' = ""
    /\ last_timestamp' = 0
    /\ to_process' = <<>>
    /\ drained' = <<>>
    /\ given' = NoFile
    /\ calls' = calls + 1
    /\ UNCHANGED <<exptfile_type, orig, acqus, mtime, toml, error>>

(***************************************************************************)
(* main(), lines 747-757: after the sleep, every folder newer than         *)
(* last_timestamp is put on the queue in the order the glob yields it.     *)
(***************************************************************************)
\* WatchFilter that keeps to the window of the catch-up enumeration
WatchFilterInWindow(timestamp, mark) ==
    timestamp > mark /\ StartDate <= timestamp /\ timestamp <= EndDate

WatchFilter(timestamp, mark) == timestamp > mark

WatchScan ==
    /\ pc \in {"catchup", "watch"}
    /\ to_process = <<>>
    /\ to_process' \in Perms({p \in Found : WatchFilter(mtime[p], last_timestamp)})
    /\ pc' = "watch"
    /\ drained' = <<>>
    /\ UNCHANGED <<exptfile_type, orig, acqus, mtime, w_inpath, w_outpath, last_timestamp,
                   toml, disk, summary, error, calls, given>>

(***************************************************************************)
(* KeyboardInterrupt (lines 768-772) ends the process, and with it the     *)
(* watcher object and the queue; Restart is the next start of main().      *)
(***************************************************************************)
Interrupt ==
    /\ pc \in {"scan", "catchup", "watch"}
    /\ pc' = "stopped"
    /\ w_inpath' = ""
    /\ w_outpath' = ""
    /\ last_timestamp' = 0
    /\ to_process' = <<>>
    /\ drained' = <<>>
    /\ given' = NoFile
    /\ UNCHANGED <<exptfile_type, orig, acqus, mtime, toml, disk, summary, error, calls>>

Restart ==
    /\ pc \in {"crashed", "stopped"}
    /\ pc' = "init"
    /\ w_inpath' = ""
    /\ w_outpath' = ""
    /\ last_timestamp' = 0
    /\ to_process' = <<>>
    /\ drained' = <<>>
    /\ error' = "none"
    /\ given' = NoFile
    /\ UNCHANGED <<exptfile_type, orig, acqus, mtime, toml, disk, summary, calls>>

Next ==
    \/ \E p \in Folders, t \in Times : NewFolder(p, t)
    \/ \E clean \in BOOLEAN : StartClean(clean)
    \/ \E clean \in BOOLEAN : StartLoad(clean)
    \/ CatchUpScan
    \/ /\ to_process # <<>>
       /\ \E dest \in Destinations(Head(to_process)) :
             ProcessData(Head(to_process), dest)
    \/ /\ to_process # <<>>
       /\ \E dest \in Destinations(Head(to_process)), partial \in BOOLEAN :
             CopyFails(Head(to_process), dest, partial)
    \/ /\ to_process # <<>>
       /\ \E dest \in Destinations(Head(to_process)), copied \in BOOLEAN :
             ProcessInterrupted(Head(to_process), dest, copied)
    \/ WatchScan
    \/ Interrupt
    \/ Restart

Spec == Init /\ [][Next]_vars


(***************************************************************************)
(* Watcher.from_toml called on its own, on any dump of up to MaxBlocks     *)
(* blocks, with the default roots of its signature (lines 459-460).        *)
(***************************************************************************)
DefaultInpath == "test_inpath"
DefaultOutpath == "test_outpath"

\* a last_timestamp that is not a number (max over strings) is written -1
NotANumber == 0 - 1

LoadBlocks ==
    {Block("watcher", NoKey, NoKey, r[1], r[2], "none", 0) :
        r \in {<<CliInpath, CliOutpath>>, <<"in2", "out2">>,
               <<NoKey, CliOutpath>>, <<CliInpath, NonStr>>}}
    \cup {Block(k, NoKey, NoKey, NoKey, NoKey, "none", 0) : k \in {"scalar", "garbage", "badutf8"}}
    \cup {Block("processed", "S_1", "PROTON", "in/d1/a", "out/S_1/10", "num", t) : t \in Times}
    \cup {Block("processed", "S_1", "PROTON", "in/d1/a", "out/S_1/10", k, 0) : k \in {"absent", "str"}}

LogFiles ==
    {NoFile} \cup
    {[exists |-> TRUE, blocks |-> b] : b \in UNION {[1..n -> LoadBlocks] : n \in 0..MaxBlocks}}

InitLoad ==
    /\ pc = "init"
    /\ exptfile_type = "mifnmr"
    /\ mtime = [p \in Folders |-> 0]
    /\ orig = [p \in Folders |-> Orig(p)]
    /\ acqus = [p \in Folders |-> Acqus(p)]
    /\ w_inpath = ""
    /\ w_outpath = ""
    /\ last_timestamp = 0
    /\ to_process = <<>>
    /\ toml \in LogFiles
    /\ disk = {}
    /\ summary = [s \in Samples |-> <<>>]
    /\ error = "none"
    /\ drained = <<>>
    /\ calls = 0
    /\ given = NoFile

FromTomlCall ==
    /\ pc = "init"
    /\ LET w == from_toml(toml, DefaultInpath, DefaultOutpath)
       IN  /\ given' = toml
           /\ toml' = w.file
           /\ w_inpath' = w.inpath
           /\ w_outpath' = w.outpath
           /\ last_timestamp' = IF w.tsk = "str" THEN NotANumber ELSE w.last_timestamp
           /\ error' = IF w.outcome = "raised" THEN w.exc ELSE "none"
           /\ pc' = IF w.outcome = "raised" THEN "raised" ELSE "returned"
    /\ UNCHANGED <<exptfile_type, orig, acqus, mtime, to_process, disk, summary, drained, calls>>

NextLoad == FromTomlCall

SpecLoad == InitLoad /\ [][NextLoad]_vars


(***************************************************************************)
(* One clean run of main() with the MIFNMRFolder variant on a source root  *)
(* where the instrument writes the folder d1/a, with any orig and acqus    *)
(* files, and an archive in which a user may have made a directory of      *)
(* their own next to the slots of sample S_1.                              *)
(***************************************************************************)
OrigLines == {OrigLine(n, sd) : n \in NameTexts, sd \in SidTexts}

OrigFiles ==
    {NoText(k) : k \in {"missing", "denied", "binary"}}
        \cup {TextFile(l) : l \in UNION {[1..n -> OrigLines] : n \in 0..MaxLines}}

AcqusFiles ==
    {NoText(k) : k \in {"missing", "denied", "binary"}}
        \cup {TextFile(<<e>>) : e \in ExpTexts}

\* a directory of the archive that no run of main() has made
ForeignDir(dir, name) ==
    [dir |-> dir, name |-> name, src |-> "user", ts |-> 0, whole |-> TRUE]

Archives == {{}, {ForeignDir("S_1", "notes")}}

InitFolder ==
    /\ pc = "init"
    /\ exptfile_type = "mifnmr"
    /\ mtime = [p \in Folders |-> 0]
    /\ orig \in {[p \in Folders |-> IF p = "d1/a" THEN f ELSE Orig(p)] : f \in OrigFiles}
    /\ acqus \in {[p \in Folders |-> IF p = "d1/a" THEN f ELSE Acqus(p)] : f \in AcqusFiles}
    /\ w_inpath = ""
    /\ w_outpath = ""
    /\ last_timestamp = 0
    /\ to_process = <<>>
    /\ toml = NoFile
    /\ disk \in Archives
    /\ summary = [s \in Samples |-> <<>>]
    /\ error = "none"
    /\ drained = <<>>
    /\ calls = 0
    /\ given = NoFile

NextFolder ==
    \/ \E t \in Times : NewFolder("d1/a", t)
    \/ \E clean \in BOOLEAN : StartClean(clean)
    \/ CatchUpScan
    \/ /\ to_process # <<>>
       /\ \E dest \in Destinations(Head(to_process)) :
             ProcessData(Head(to_process), dest)
    \/ /\ to_process # <<>>
       /\ PlanFails(Head(to_process))
    \/ WatchScan

SpecFolder == InitFolder /\ [][NextFolder]_vars


(***************************************************************************)
(* One clean run of main() that no copy failure and no KeyboardInterrupt   *)
(* ends: the start, the catch-up phase and the watch cycles.  The loops of *)
(* main() go on while they can (lines 730-766), which the fairness         *)
(* conditions of LiveRun state.                                            *)
(***************************************************************************)
\* one pass of "while not to_process.empty()" (lines 730-740, 759-766)
DrainStep ==
    /\ to_process # <<>>
    /\ \E dest \in Destinations(Head(to_process)) :
          ProcessData(Head(to_process), dest)

NextRun ==
    \/ \E p \in Folders, t \in Times : NewFolder(p, t)
    \/ \E clean \in BOOLEAN : StartClean(clean)
    \/ CatchUpScan
    \/ DrainStep
    \/ WatchScan

LiveRun ==
    /\ Init
    /\ [][NextRun]_vars
    /\ WF_vars(CatchUpScan)
    /\ WF_vars(DrainStep)
    /\ WF_vars(WatchScan)

(***************************************************************************)
(* The same run with an instrument that also writes to a folder while      *)
(* process_data works on it.                                               *)
(***************************************************************************)
NextRace ==
    \/ NextRun
    \/ /\ to_process # <<>>
       /\ \E dest \in Destinations(Head(to_process)), t \in Times :
             ProcessDataTouched(Head(to_process), dest, t)

SpecRace == Init /\ [][NextRace]_vars

(***************************************************************************)
(* Runs of main() without --clean that start from a dump from_toml cannot  *)
(* load: an empty file, a file that is not TOML, a header followed by text *)
(* that is not TOML.                                                       *)
(***************************************************************************)
CorruptLogs ==
    {[exists |-> TRUE, blocks |-> b] :
        b \in {<<>>,
               <<Block("garbage", NoKey, NoKey, NoKey, NoKey, "none", 0)>>,
               <<HeaderBlock(CliInpath, CliOutpath),
                 Block("garbage", NoKey, NoKey, NoKey, NoKey, "none", 0)>>}}

InitRestart ==
    /\ pc = "init"
    /\ exptfile_type \in {"mifnmr", "simple"}
    /\ mtime = [p \in Folders |-> 0]
    /\ orig = [p \in Folders |-> Orig(p)]
    /\ acqus = [p \in Folders |-> Acqus(p)]
    /\ w_inpath = ""
    /\ w_outpath = ""
    /\ last_timestamp = 0
    /\ to_process = <<>>
    /\ toml \in CorruptLogs
    /\ disk = {}
    /\ summary = [s \in Samples |-> <<>>]
    /\ error = "none"
    /\ drained = <<>>
    /\ calls = 0
    /\ given = NoFile

NextRestart ==
    \/ \E p \in Folders, t \in Times : NewFolder(p, t)
    \/ \E clean \in BOOLEAN : StartLoad(clean)
    \/ CatchUpScan
    \/ DrainStep
    \/ WatchScan
    \/ Interrupt
    \/ Restart

SpecRestart == InitRestart /\ [][NextRestart]_vars


(***************************************************************************)
(* The claims.                                                             *)
(***************************************************************************)
\* the time stamps of the records the dump holds
RecordTimestamps == {Processed(toml)[i].timestamp : i \in DOMAIN Processed(toml)}

\* a step that is a completed process_data call: one more call, no crash
IsProcessStep == calls' = calls + 1 /\ pc' \in {"catchup", "watch"}

\* C1: after each process_data call of a run, last_timestamp is the maximum
\* time stamp over the records committed so far, and no call lowers it.
C1_HighWaterMark ==
    /\ [](pc \in {"catchup", "watch"} /\ drained # <<>>
            => last_timestamp = SetMax(RecordTimestamps))
    /\ [][IsProcessStep => last_timestamp' >= last_timestamp]_vars

\* C2: a folder whose time stamp does not change is processed at most once:
\* the dump never holds two records with the same inpath and timestamp.
C2_ProcessedOnce ==
    \A i, j \in DOMAIN Processed(toml) :
        /\ Processed(toml)[i].inpath = Processed(toml)[j].inpath
        /\ Processed(toml)[i].timestamp = Processed(toml)[j].timestamp
        => i = j

\* C3: processing the same unchanged source folder again makes no second
\* copy: the archive never holds two complete copies of one state of one
\* source folder.
C3_IdempotentCopy ==
    \A e1, e2 \in disk :
        e1.whole /\ e2.whole /\ e1.src = e2.src /\ e1.ts = e2.ts => e1 = e2

\* C4: the MIFNMRFolder variant plans slot max(S) + 10 for a sample with the
\* existing slots S, and 10 when S is empty, whatever the listing order.
C4_NextSlot ==
    [][IsProcessStep /\ exptfile_type = "mifnmr" =>
        LET rec == toml'.blocks[Len(toml'.blocks)]
            S == {IntOf(d) : d \in SlotsOf(rec.nmr_sample)}
        IN  rec.outpath = PathStr(rec.nmr_sample, Str(SetMax(S) + 10))]_vars

\* C5: within a drain cycle the folders are passed to process_data in
\* ascending order of their time stamps.
C5_AscendingDrain ==
    \A i, j \in DOMAIN drained : i < j => drained[i] <= drained[j]

\* C6: from_toml on a well-formed dump (the header, then N >= 0 records)
\* returns the header's roots and the maximum record time stamp, 0 for N = 0.
WellFormed(file) ==
    /\ file.exists
    /\ Len(file.blocks) >= 1
    /\ file.blocks[1].k = "watcher"
    /\ file.blocks[1].inpath \notin {NoKey, NonStr}
    /\ file.blocks[1].outpath \notin {NoKey, NonStr}
    /\ \A i \in 2..Len(file.blocks) :
          file.blocks[i].k = "processed" /\ file.blocks[i].tsk = "num"

C6_LoadWellFormed ==
    pc \in {"returned", "raised"} /\ WellFormed(given) =>
        /\ pc = "returned"
        /\ w_inpath = given.blocks[1].inpath
        /\ w_outpath = given.blocks[1].outpath
        /\ last_timestamp =
              SetMax({given.blocks[i].timestamp : i \in 2..Len(given.blocks)})

\* C7: from_toml on a dump that is missing, malformed or lacks required
\* fields, or holds a field of the wrong shape, does not raise and returns
\* the default roots and last_timestamp 0.
BadFile(file) ==
    \/ ~file.exists
    \/ \E i \in DOMAIN file.blocks : file.blocks[i].k \in {"garbage", "badutf8", "scalar"}
    \/ Len(Headers(file)) # 1
    \/ \E i \in DOMAIN file.blocks :
          /\ file.blocks[i].k = "watcher"
          /\ \/ file.blocks[i].inpath \in {NoKey, NonStr}
             \/ file.blocks[i].outpath \in {NoKey, NonStr}
    \/ \E i \in DOMAIN file.blocks :
          file.blocks[i].k = "processed" /\ file.blocks[i].tsk \in {"absent", "str"}

C7_LoadBadFile ==
    pc \in {"returned", "raised"} /\ BadFile(given) =>
        /\ pc = "returned"
        /\ w_inpath = DefaultInpath
        /\ w_outpath = DefaultOutpath
        /\ last_timestamp = 0

\* C8: the catch-up enumeration enqueues a folder if and only if its time
\* stamp is greater than last_timestamp and lies in [StartDate, EndDate];
\* no folder outside the window is in the catch-up queue, and a folder at
\* EndDate is.
InWindow(t) == StartDate <= t /\ t <= EndDate

C8_CatchUpFilter ==
    /\ [](pc = "catchup" => \A p \in Range(to_process) : InWindow(mtime[p]))
    /\ [][pc = "scan" /\ pc' = "catchup" =>
            Range(to_process') =
                {p \in Folders : /\ mtime[p] # 0
                                 /\ mtime[p] > last_timestamp
                                 /\ InWindow(mtime[p])}]_vars

\* a catch-up queue that holds a folder stamped EndDate while a folder
\* stamped after EndDate was left out
C8_Witness ==
    /\ pc = "catchup"
    /\ \E p, q \in Folders :
          /\ p \in Range(to_process) /\ mtime[p] = EndDate
          /\ q \notin Range(to_process) /\ mtime[q] > EndDate

\* C9: a failed copy appends no record and no summary block and leaves
\* last_timestamp unchanged, so the folder's time stamp still exceeds it.
C9_FailedCopy ==
    [][error # "CopyError" /\ error' = "CopyError" =>
        /\ toml' = toml
        /\ summary' = summary
        /\ last_timestamp' = last_timestamp
        /\ mtime'[Head(to_process)] > last_timestamp']_vars

\* C10: a failed copy never ends the process.
C10_CopyFailureSurvived == ~(pc = "crashed" /\ error = "CopyError")

\* the paths of the directories of the archive, from the CLI's outpath
ArchivePath(e) ==
    IF e.dir = "" THEN CliOutpath \o "/" \o e.name
    ELSE CliOutpath \o "/" \o e.dir \o "/" \o e.name

\* the record a completed process_data call has appended
NewRecord == toml'.blocks[Len(toml'.blocks)]

\* a step that is a process_data call, completed or not
IsProcessCall == calls' = calls + 1

\* C11: every record of the dump names an outpath that exists in the
\* archive, in every state (after a failed or interrupted copy too), and no
\* step changes or replaces a directory the archive already holds.
C11_DestinationKept ==
    /\ [](\A i \in DOMAIN Processed(toml) :
             \E e \in disk : ArchivePath(e) = Processed(toml)[i].outpath)
    /\ [][\A e \in disk :
             {f \in disk' : f.dir = e.dir /\ f.name = e.name} = {e}]_vars

\* a record names a destination that a failed or interrupted copy had left
\* behind: process_data found the planned path and did not copy over it
C11_Witness ==
    \E e \in disk :
        /\ ~e.whole
        /\ \E i \in DOMAIN Processed(toml) : Processed(toml)[i].outpath = ArchivePath(e)

\* C12: in a run that loaded the dump (a restart without --clean), no folder
\* is passed to process_data whose path and time stamp a record of the
\* loaded dump holds, in the catch-up phase or in a watch cycle.
LoadedRecords ==
    {<<Processed(given)[i].inpath, Processed(given)[i].timestamp>> :
        i \in DOMAIN Processed(given)}

MarkerLines(file) == SelectSeq(file.lines, LAMBDA l : l.sid # NoKey)

ClaimedSampleNames(file) ==
    LET m == MarkerLines(file)
    IN  IF file.kind # "text" \/ m = <<>> THEN {"UNKNOWN"}
        ELSE IF Strip(m[1].sid) # "" THEN {strip_illegal_characters(Strip(m[1].sid))}
        ELSE IF Len(m) > 1 THEN Samples \ {""}
        ELSE IF m[1].name # NoKey /\ Strip(m[1].name) # ""
             THEN {strip_illegal_characters(Strip(m[1].name))}
        ELSE {"UNKNOWN"}

C13_SampleName ==
    [][IsProcessStep =>
        NewRecord.nmr_sample \in ClaimedSampleNames(orig[Head(to_process)])]_vars

\* C14: after each completed process_data call the dump (the header, then
\* the records written so far) loads, the record just written reads back as
\* the folder's sample, experiment, paths and time stamp with the earlier
\* records unchanged, and from_toml's last_timestamp is the maximum record
\* time stamp.
C14_RoundTrip ==
    [][IsProcessStep =>
        LET p == Head(to_process)
            w == from_toml(toml', CliInpath, CliOutpath)
            before == Processed(toml)
            after == Processed(toml')
        IN  /\ w.outcome = "loaded"
            /\ Len(after) = Len(before) + 1
            /\ \A i \in DOMAIN before : after[i] = before[i]
            /\ after[Len(after)].nmr_sample = get_sample_name(p)
            /\ after[Len(after)].experiment = get_experiment_name(p)
            /\ after[Len(after)].inpath = w_inpath \o "/" \o p
            /\ \E e \in disk' : ArchivePath(e) = after[Len(after)].outpath
            /\ after[Len(after)].timestamp = mtime[p]
            /\ w.last_timestamp = SetMax({after[i].timestamp : i \in DOMAIN after})]_vars

\* C15: a watch cycle starts with an empty queue and enqueues exactly the
\* folders whose time stamp is greater than last_timestamp, inside the
\* window [StartDate, EndDate] or not, each once.
IsWatchEnumeration ==
    /\ pc \in {"catchup", "watch"} /\ pc' = "watch"
    /\ calls' = calls /\ mtime' = mtime
    /\ (pc' # pc \/ to_process' # to_process \/ drained' # drained)

C15_WatchCycle ==
    [][IsWatchEnumeration =>
        /\ to_process = <<>>
        /\ Range(to_process') =
              {p \in Folders : mtime[p] # 0 /\ mtime[p] > last_timestamp}
        /\ Len(to_process') = Cardinality(Range(to_process'))]_vars

\* a watch cycle has enqueued a folder stamped outside the window and left
\* out a folder stamped at or below last_timestamp
C15_Witness ==
    /\ pc = "watch"
    /\ \E p, q \in Folders :
          /\ p \in Range(to_process) /\ ~InWindow(mtime[p])
          /\ q \notin Range(to_process) /\ mtime[q] # 0 /\ mtime[q] <= last_timestamp

\* C16: a start that creates the Watcher with clean = True (--clean, or no
\* dump) leaves the dump holding the header with the CLI's roots and no
\* record; a start that loads an existing dump (clean = False) leaves the
\* dump as it was.  given is NoFile unless the start called from_toml.
C16_CleanStart ==
    [][pc = "init" /\ pc' # "init" =>
        IF given' = NoFile
        THEN toml' = [exists |-> TRUE, blocks |-> <<HeaderBlock(CliInpath, CliOutpath)>>]
        ELSE toml' = toml]_vars

\* a clean start has truncated the dump of a run that had archived a folder
C16_Witness ==
    /\ pc = "scan"
    /\ given = NoFile
    /\ toml.blocks = <<HeaderBlock(CliInpath, CliOutpath)>>
    /\ calls > 0
    /\ \E e \in disk : e.whole

\* C17: each completed process_data call of the MIFNMRFolder variant appends
\* one block (the slot of the record, its experiment, parent/name of the
\* source folder) to the summary file of the record's sample, copy skipped
\* or not, and no step changes a block written earlier.
SlotOf(rec) ==
    CHOOSE n \in Numerals : rec.outpath = PathStr(rec.nmr_sample, Str(n))

C17_SummaryAppend ==
    /\ [][IsProcessStep /\ exptfile_type = "mifnmr" =>
            /\ summary'[NewRecord.nmr_sample] =
                  Append(summary[NewRecord.nmr_sample],
                         [expno |-> SlotOf(NewRecord),
                          experiment |-> NewRecord.experiment,
                          inpath |-> ParentName(Head(to_process)) \o "/"
                                        \o Name(Head(to_process))])
            /\ \A s \in Samples \ {NewRecord.nmr_sample} : summary'[s] = summary[s]]_vars
    /\ [][\A s \in Samples :
            /\ Len(summary'[s]) >= Len(summary[s])
            /\ SubSeq(summary'[s], 1, Len(summary[s])) = summary[s]]_vars

\* two records name one slot: the later call found the slot in the archive,
\* skipped the copy, and the summary file holds a block for each call
C17_Witness ==
    /\ exptfile_type = "mifnmr"
    /\ \E i, j \in DOMAIN Processed(toml) :
          /\ i < j
          /\ Processed(toml)[i].outpath = Processed(toml)[j].outpath
          /\ Len(summary[Processed(toml)[j].nmr_sample]) >= Len(Processed(toml))

\* C18: a process_data call on a folder whose orig or acqus file is missing,
\* cannot be read, or holds no matching line completes: the identifier
\* taken from that file is "UNKNOWN", the folder is in the archive, the
\* record is appended and last_timestamp is the folder's time stamp.
NoMatch(file, orig_file) ==
    /\ file.kind = "text"
    /\ \A i \in DOMAIN file.lines :
          IF orig_file THEN file.lines[i].sid = NoKey ELSE file.lines[i] = NoKey

Degraded(file, orig_file) == file.kind # "text" \/ NoMatch(file, orig_file)

C18_SidecarAbsorbed ==
    [][/\ IsProcessCall
       /\ exptfile_type = "mifnmr"
       /\ \A d \in SlotsOf(get_sample_name(Head(to_process))) : IsNumeric(d)
       /\ Degraded(orig[Head(to_process)], TRUE) \/ Degraded(acqus[Head(to_process)], FALSE)
       =>
       /\ IsProcessStep
       /\ Degraded(orig[Head(to_process)], TRUE) => NewRecord.nmr_sample = "UNKNOWN"
       /\ Degraded(acqus[Head(to_process)], FALSE) => NewRecord.experiment = "UNKNOWN"
       /\ \E e \in disk' : ArchivePath(e) = NewRecord.outpath
       /\ last_timestamp' = mtime[Head(to_process)]]_vars

\* C19: a directory with a non-numeric name in the sample's directory does
\* not make process_data fail and does not change the slot planned: the
\* record names the slot after the numeric directories.
C19_NonNumericIgnored ==
    [][/\ IsProcessCall
       /\ exptfile_type = "mifnmr"
       /\ ReadError(orig[Head(to_process)]) = "none"
       /\ ReadError(acqus[Head(to_process)]) = "none"
       /\ get_sample_name(Head(to_process)) # ""
       /\ \E d \in SlotsOf(get_sample_name(Head(to_process))) : ~IsNumeric(d)
       =>
       /\ IsProcessStep
       /\ NewRecord.outpath \in
             {PathStr(NewRecord.nmr_sample, Str(n)) :
                 n \in ExpnoChoices({d \in SlotsOf(NewRecord.nmr_sample) : IsNumeric(d)})}]_vars

\* C20: the outpath of every record holds a copy of the record's inpath, so
\* two records of different source folders never name one outpath.
C20_OwnCopy ==
    \A i \in DOMAIN Processed(toml) :
        \E e \in disk :
            /\ ArchivePath(e) = Processed(toml)[i].outpath
            /\ CliInpath \o "/" \o e.src = Processed(toml)[i].inpath

\* C21: after a completed process_data call last_timestamp is the
\* timestamp of the record the call appended, also when the instrument
\* writes to the folder between the two reads of its st_mtime.
C21_MarkIsRecordStamp ==
    [][IsProcessStep => last_timestamp' = NewRecord.timestamp]_vars

\* C22: in a run where from_toml fell back on a dump it could not load, the
\* dump with the records appended since is one the next start without
\* --clean can load.
C22_FallbackOnce ==
    /\ pc \in {"catchup", "watch"}
    /\ given.exists
    /\ TryError(given) \in Caught
    /\ Len(Processed(toml)) > Len(Processed(given))
    => TryError(toml) = "none"

\* C23: without copy failures and interrupts the catch-up phase ends: each
\* pass of its loop takes the head off the queue and appends that folder's
\* record, no folder is on the queue or in the records of the run twice,
\* the watch phase is entered from an empty queue only, and it is entered.
RunInpaths ==
    [i \in 1..Len(Processed(toml)) |-> Processed(toml)[i].inpath]
        \o [i \in 1..Len(to_process) |-> w_inpath \o "/" \o to_process[i]]

C23_CatchUpTerminates ==
    /\ [][pc = "catchup" /\ pc' = "catchup" /\ to_process' # to_process =>
            /\ to_process # <<>>
            /\ to_process' = Tail(to_process)
            /\ Len(toml'.blocks) = Len(toml.blocks) + 1
            /\ NewRecord.inpath = w_inpath \o "/" \o Head(to_process)]_vars
    /\ [](pc = "catchup" =>
            \A i, j \in DOMAIN RunInpaths : RunInpaths[i] = RunInpaths[j] => i = j)
    /\ [][pc = "catchup" /\ pc' # "catchup" => pc' = "watch" /\ to_process = <<>>]_vars
    /\ (pc = "catchup") ~> (pc = "watch")

\* the catch-up phase has drained a queue of two folders to empty
C23_Witness ==
    /\ pc = "catchup"
    /\ to_process = <<>>
    /\ Len(drained) = 2
    /\ Len(Processed(toml)) = 2

====
